---------------------------- MODULE Spec2Model ----------------------------
(***************************************************************************)
(* Fax native runtime bridge.                                              *)
(*                                                                         *)
(*   Allocation Runtime   : faxc/crates/faxc-runtime/src/runtime.c         *)
(*   Serialization Bridge : faxc/Compiler/Proto/ffi.cpp (+ ffi.h)          *)
(*                                                                         *)
(* Every exported function is one action.  A call's arguments are drawn   *)
(* from small sets; the call's observable result (return value, values    *)
(* stored through out-parameters, diagnostic lines) is kept in a record   *)
(* of the most recent calls so that properties can speak about it.        *)
(***************************************************************************)
EXTENDS Integers, Sequences, FiniteSets

(***************************************************************************)
(* Bounds of the model.                                                    *)
(***************************************************************************)
\* number of distinct addresses malloc/calloc return and callers register
MaxAddr == 2
\* largest size argument passed to an allocation or a decode call
MaxSize == 1
\* number of addresses operator new can return for ProtoContextData
MaxCtx == 2
\* largest token index passed to fax_get_token_info
MaxIndex == 0
\* number of most recent Allocation Runtime calls kept in gcLog
Window == 3
\* number of threads that call the Allocation Runtime concurrently
MaxThreads == 2

NULL == 0
Addrs == 1..MaxAddr
Sizes == 0..MaxSize
Ctxs == 1..MaxCtx
Indexes == (0 - 1)..MaxIndex
Threads == 1..MaxThreads

VARIABLES
    gc_initialized, \* runtime.c: static int gc_initialized
    roots,          \* addresses the runtime holds as GC roots
    gcLog,          \* the last Window runtime calls, oldest first
    thr,            \* thread -> the runtime call it is in and its next statement
    alive,          \* ffi.cpp: address -> "unalloc" | "live" | "freed"
    mem,            \* ffi.cpp: address -> the ProtoContextData stored there
    recorded,       \* address -> message most recently recorded on the object
    decodeOk,       \* address -> a fax_deserialize_tokens call has succeeded
    last            \* the most recent bridge call and its results

gcVars == <<gc_initialized, roots, gcLog, thr>>
bridgeVars == <<alive, mem, recorded, decodeOk, last>>
vars == <<gc_initialized, roots, gcLog, thr, alive, mem, recorded, decodeOk, last>>

(***************************************************************************)
(* Allocation Runtime (runtime.c)                                          *)
(***************************************************************************)

\* One runtime call as seen by its caller: the function, its pointer
\* argument (root calls; 0 otherwise), its return value, the value the C
\* library call inside it returned (NULL when there is none) and the number
\* of lines it wrote to stderr.
GcCall(op, arg, ret, sys, diag) ==
    [op |-> op, arg |-> arg, ret |-> ret, sys |-> sys, diag |-> diag]

Push(log, c) ==
    IF Len(log) < Window THEN Append(log, c) ELSE Append(Tail(log), c)

\* malloc(size) / calloc(1, size): NULL on exhaustion, which the C library
\* may report at any call and for any size, or the address of a block.
MallocResults(size) == {NULL} \cup Addrs

\* fax_gc_init: the flag after the call, and the status returned.
GcInitFlagToggles(flag) == 1 - flag
GcInitFlag(flag) == IF flag # 0 THEN flag ELSE 1
GcInitRet(flag) == IF flag # 0 THEN 1 ELSE 1

fax_gc_init ==
    /\ gc_initialized' = GcInitFlag(gc_initialized)
    /\ gcLog' = Push(gcLog, GcCall("init", 0, GcInitRet(gc_initialized), NULL, 0))
    /\ UNCHANGED roots
    /\ UNCHANGED <<thr, bridgeVars>>

\* The prologue shared by both allocation functions:
\*   if (!gc_initialized) { fax_gc_init(); }
LazyInitSkipped(flag) == flag
LazyInitFlag(flag) == IF flag = 0 THEN GcInitFlag(flag) ELSE flag

\* The pointer an allocation function returns and the number of diagnostics
\* it prints, given what malloc/calloc returned.
AllocRet(p) == IF p = NULL THEN NULL ELSE p
AllocDiagSilent(p) == 0
AllocDiag(p) == IF p = NULL THEN 1 ELSE 0

fax_gc_alloc(size) ==
    \E p \in MallocResults(size) :
        /\ gc_initialized' = LazyInitFlag(gc_initialized)
        /\ gcLog' = Push(gcLog, GcCall("alloc", 0, AllocRet(p), p, AllocDiag(p)))
        /\ UNCHANGED roots
        /\ UNCHANGED <<thr, bridgeVars>>

fax_gc_alloc_zeroed(size) ==
    \E p \in MallocResults(size) :
        /\ gc_initialized' = LazyInitFlag(gc_initialized)
        /\ gcLog' = Push(gcLog, GcCall("alloc_zeroed", 0, AllocRet(p), p,
                                       AllocDiag(p)))
        /\ UNCHANGED roots
        /\ UNCHANGED <<thr, bridgeVars>>

\* fax_gc_register_root / fax_gc_unregister_root: both bodies are
\* `return 1;`, so the set of addresses held as roots is left as it is.
RegisterRootAdds(rs, ptr) == rs \cup {ptr}
RegisterRootSet(rs, ptr) == rs
UnregisterRootSet(rs, ptr) == rs

fax_gc_register_root(ptr) ==
    /\ roots' = RegisterRootSet(roots, ptr)
    /\ gcLog' = Push(gcLog, GcCall("register_root", ptr, 1, NULL, 0))
    /\ UNCHANGED gc_initialized
    /\ UNCHANGED <<thr, bridgeVars>>

fax_gc_unregister_root(ptr) ==
    /\ roots' = UnregisterRootSet(roots, ptr)
    /\ gcLog' = Push(gcLog, GcCall("unregister_root", ptr, 1, NULL, 0))
    /\ UNCHANGED gc_initialized
    /\ UNCHANGED <<thr, bridgeVars>>

CollectInitializes ==
    /\ gcLog' = Push(gcLog, GcCall("collect", 0, 0, NULL, 0))
    /\ gc_initialized' = 1
    /\ UNCHANGED roots
    /\ UNCHANGED <<thr, bridgeVars>>

fax_gc_collect ==
    /\ gcLog' = Push(gcLog, GcCall("collect", 0, 0, NULL, 0))
    /\ UNCHANGED <<gc_initialized, roots>>
    /\ UNCHANGED <<thr, bridgeVars>>

fax_gc_collect_young ==
    /\ gcLog' = Push(gcLog, GcCall("collect_young", 0, 0, NULL, 0))
    /\ UNCHANGED <<gc_initialized, roots>>
    /\ UNCHANGED <<thr, bridgeVars>>

fax_gc_shutdown ==
    /\ gc_initialized' = 0
    /\ gcLog' = Push(gcLog, GcCall("shutdown", 0, 0, NULL, 0))
    /\ UNCHANGED roots
    /\ UNCHANGED <<thr, bridgeVars>>

\* A thread that is in no runtime call.  op and ret describe the call it
\* completed last; init is the value gc_initialized had when that call
\* returned.
ThreadIdle(op, ret, init) == [pc |-> "idle", op |-> op, ret |-> ret, init |-> init]

GcInitState ==
    /\ gc_initialized = 0
    /\ roots = {}
    /\ gcLog = <<>>
    /\ thr = [t \in Threads |-> ThreadIdle("none", 0, 0)]

GcNext ==
    \/ fax_gc_init
    \/ \E size \in Sizes : fax_gc_alloc(size)
    \/ \E size \in Sizes : fax_gc_alloc_zeroed(size)
    \/ \E ptr \in {NULL} \cup Addrs : fax_gc_register_root(ptr)
    \/ \E ptr \in {NULL} \cup Addrs : fax_gc_unregister_root(ptr)
    \/ fax_gc_collect
    \/ fax_gc_collect_young
    \/ fax_gc_shutdown

(***************************************************************************)
(* Allocation Runtime called from several threads.  runtime.c takes no     *)
(* lock and gc_initialized is a plain static int, so the calls interleave  *)
(* at every read and write of the flag.  One action per such statement;    *)
(* thr[t].pc names the statement thread t executes next.                   *)
(***************************************************************************)
GcOps == {"init", "alloc", "alloc_zeroed", "register_root", "unregister_root",
          "collect", "collect_young", "shutdown"}

\* The first statement of each function.
EntryPc(op) ==
    CASE op = "init" -> "init_test"
      [] op \in {"alloc", "alloc_zeroed"} -> "alloc_test"
      [] op = "shutdown" -> "shutdown_store"
      [] OTHER -> "plain_return"

\* Where control goes when fax_gc_init returns: to its caller's malloc or
\* calloc when it was called from an allocation function, else to the host.
AfterInit(t, flag) ==
    IF thr[t].op = "init"
    THEN ThreadIdle("init", 1, flag)
    ELSE [thr[t] EXCEPT !.pc = "malloc"]

\* thread t enters a runtime function
ThrCall(t, op) ==
    /\ thr[t].pc = "idle"
    /\ thr' = [thr EXCEPT ![t] = [pc |-> EntryPc(op), op |-> op, ret |-> 0,
                                  init |-> 0]]
    /\ UNCHANGED <<gc_initialized, roots, gcLog, bridgeVars>>

\* fax_gc_alloc / fax_gc_alloc_zeroed: if (!gc_initialized)
ThrAllocTest(t) ==
    /\ thr[t].pc = "alloc_test"
    /\ thr' = [thr EXCEPT ![t].pc =
                  IF gc_initialized = 0 THEN "init_test" ELSE "malloc"]
    /\ UNCHANGED <<gc_initialized, roots, gcLog, bridgeVars>>

\* fax_gc_init: if (gc_initialized) return 1;
ThrInitTest(t) ==
    /\ thr[t].pc = "init_test"
    /\ thr' = [thr EXCEPT ![t] =
                  IF gc_initialized # 0
                  THEN AfterInit(t, gc_initialized)
                  ELSE [thr[t] EXCEPT !.pc = "init_store"]]
    /\ UNCHANGED <<gc_initialized, roots, gcLog, bridgeVars>>

\* fax_gc_init: gc_initialized = 1; return 1;
ThrInitStore(t) ==
    /\ thr[t].pc = "init_store"
    /\ gc_initialized' = 1
    /\ thr' = [thr EXCEPT ![t] = AfterInit(t, 1)]
    /\ UNCHANGED <<roots, gcLog, bridgeVars>>

\* fax_gc_alloc / fax_gc_alloc_zeroed: malloc or calloc, then return
ThrMalloc(t) ==
    /\ thr[t].pc = "malloc"
    /\ \E size \in Sizes : \E p \in MallocResults(size) :
          thr' = [thr EXCEPT ![t] = ThreadIdle(thr[t].op, AllocRet(p),
                                               gc_initialized)]
    /\ UNCHANGED <<gc_initialized, roots, gcLog, bridgeVars>>

\* fax_gc_shutdown: gc_initialized = 0;
ThrShutdownStore(t) ==
    /\ thr[t].pc = "shutdown_store"
    /\ gc_initialized' = 0
    /\ thr' = [thr EXCEPT ![t] = ThreadIdle("shutdown", 0, 0)]
    /\ UNCHANGED <<roots, gcLog, bridgeVars>>

\* the functions that touch no shared state: root calls return 1, the
\* collect calls return nothing
ThrPlainReturn(t) ==
    /\ thr[t].pc = "plain_return"
    /\ thr' = [thr EXCEPT ![t] =
                  ThreadIdle(thr[t].op,
                             IF thr[t].op \in {"register_root", "unregister_root"}
                             THEN 1 ELSE 0,
                             gc_initialized)]
    /\ UNCHANGED <<gc_initialized, roots, gcLog, bridgeVars>>

GcConcNext ==
    \/ \E t \in Threads, op \in GcOps : ThrCall(t, op)
    \/ \E t \in Threads : ThrAllocTest(t)
    \/ \E t \in Threads : ThrInitTest(t)
    \/ \E t \in Threads : ThrInitStore(t)
    \/ \E t \in Threads : ThrMalloc(t)
    \/ \E t \in Threads : ThrShutdownStore(t)
    \/ \E t \in Threads : ThrPlainReturn(t)

(***************************************************************************)
(* Serialization Bridge (ffi.cpp)                                          *)
(***************************************************************************)

ErrTokenSer == "Token serialization not yet implemented with protobuf"
ErrTokenDe == "Token deserialization not yet implemented"
ErrModuleSer == "Module serialization not yet implemented"
ErrModuleDe == "Module deserialization not yet implemented"
VersionString == "Fax Protobuf FFI v0.0.3"

Msgs == {ErrTokenSer, ErrTokenDe, ErrModuleSer, ErrModuleDe}

\* struct ProtoContextData as its default constructor leaves it.
\* token_stream / module: TRUE when the unique_ptr holds a message.
ProtoContextData ==
    [error |-> "", buffer |-> <<>>, temp_string |-> "",
     token_stream |-> FALSE, module |-> FALSE]

\* Storage that holds no constructed object (never allocated, or deleted):
\* its bytes are indeterminate.
Indeterminate ==
    [error |-> "?", buffer |-> <<>>, temp_string |-> "?",
     token_stream |-> FALSE, module |-> FALSE]

\* Handles a caller can hold: null, or an address fax_proto_context_new has
\* returned (whether or not it has been freed since).
Held == {NULL} \cup {h \in Ctxs : alive[h] # "unalloc"}
\* Handles the contract allows a caller to use: null or a live context.
Valid == {NULL} \cup {h \in Ctxs : alive[h] = "live"}

OutParams == {"type", "text", "line", "col"}

\* One bridge call as seen by its caller.
\*   ctx    the handle passed (NULL when the function takes none)
\*   inp    the input pointer (source / ast_json / data) was non-null
\*   size   the size argument;  index  the index argument
\*   outp   the out-parameters passed non-null
\*   ret    the integer or pointer returned (pointers: NULL or non-zero)
\*   text   the characters behind a returned non-null const char*
\*   writes the values stored through out-parameters, by parameter name
\*   ub     the call read, wrote or deleted storage of a deleted object
BridgeCall(op, ctx, inp, size, index, outp, ret, text, writes, ub) ==
    [op |-> op, ctx |-> ctx, inp |-> inp, size |-> size, index |-> index,
     outp |-> outp, ret |-> ret, text |-> text, writes |-> writes, ub |-> ub]

NoWrites == [p \in {} |-> 0]

\* new ProtoContextData(): the constructor's result does not depend on what
\* the storage held before.
NewContextReusesStorage(old) == old
NewContextData(old) == ProtoContextData

fax_proto_context_new ==
    \E h \in Ctxs :
        /\ UNCHANGED gcVars
        /\ alive[h] # "live"
        /\ alive' = [alive EXCEPT ![h] = "live"]
        /\ mem' = [mem EXCEPT ![h] = NewContextData(mem[h])]
        /\ recorded' = [recorded EXCEPT ![h] = ""]
        /\ decodeOk' = [decodeOk EXCEPT ![h] = FALSE]
        /\ last' = BridgeCall("context_new", NULL, FALSE, 0, 0, {}, h, "",
                              NoWrites, FALSE)

\* delete static_cast<ProtoContextData*>(ctx): no test of whether ctx still
\* points to an object, so deleting a deleted object is undefined behaviour.
FreeTouchesFreed(status) == status = "freed"

fax_proto_context_free(ctx) ==
    /\ UNCHANGED gcVars
    /\ ctx \in Held
    /\ IF ctx # NULL /\ alive[ctx] = "live"
       THEN /\ alive' = [alive EXCEPT ![ctx] = "freed"]
            /\ mem' = [mem EXCEPT ![ctx] = Indeterminate]
            /\ recorded' = [recorded EXCEPT ![ctx] = ""]
            /\ decodeOk' = [decodeOk EXCEPT ![ctx] = FALSE]
       ELSE UNCHANGED <<alive, mem, recorded, decodeOk>>
    /\ last' = BridgeCall("context_free", ctx, FALSE, 0, 0, {}, 0, "", NoWrites,
                          ctx # NULL /\ FreeTouchesFreed(alive[ctx]))

\* fax_proto_get_error on an object: the object afterwards, whether nullptr
\* is returned, and the characters returned otherwise.
GetErrorDataCached(d) ==
    IF d.error = "" \/ d.temp_string # "" THEN d
    ELSE [d EXCEPT !.temp_string = d.error]
GetErrorDataClears(d) ==
    IF d.error = "" THEN d ELSE [d EXCEPT !.temp_string = d.error, !.error = ""]
GetErrorData(d) ==
    IF d.error = "" THEN d ELSE [d EXCEPT !.temp_string = d.error]
GetErrorNull(d) == d.error = ""
GetErrorText(d) == GetErrorData(d).temp_string

\* fax_proto_get_error dereferences every non-null handle.
GetErrorTouchesFreed(status) == status = "freed"

fax_proto_get_error(ctx) ==
    /\ UNCHANGED gcVars
    /\ ctx \in Held
    /\ UNCHANGED <<alive, recorded, decodeOk>>
    /\ \/ /\ ctx = NULL
          /\ mem' = mem
          /\ last' = BridgeCall("get_error", ctx, FALSE, 0, 0, {}, NULL, "",
                                NoWrites, FALSE)
       \/ /\ ctx # NULL
          /\ alive[ctx] = "live"
          /\ mem' = [mem EXCEPT ![ctx] = GetErrorData(mem[ctx])]
          /\ last' = IF GetErrorNull(mem[ctx])
                     THEN BridgeCall("get_error", ctx, FALSE, 0, 0, {}, NULL, "",
                                     NoWrites, FALSE)
                     ELSE BridgeCall("get_error", ctx, FALSE, 0, 0, {}, 1,
                                     GetErrorText(mem[ctx]), NoWrites, FALSE)
       \/ \* a deleted object: data->error is read from released storage, so
          \* the call may return nullptr or a pointer to any characters
          /\ ctx # NULL
          /\ alive[ctx] # "live"
          /\ mem' = mem
          /\ \E t \in {""} \cup Msgs :
                last' = BridgeCall("get_error", ctx, FALSE, 0, 0, {},
                                   IF t = "" THEN NULL ELSE 1, t, NoWrites,
                                   GetErrorTouchesFreed(alive[ctx]))

\* fax_serialize_tokens
SerializeArgsIgnoresSource(ctx, source, out_size) == ctx # NULL /\ out_size
SerializeArgsOk(ctx, source, out_size) == ctx # NULL /\ source /\ out_size
SerializeTokensData(d) == [d EXCEPT !.error = ErrTokenSer, !.buffer = <<>>]
SerializeTokensWrites == [p \in {"out_size"} |-> 0]

\* a bridge whose error message is one object shared by every context
SerializeTokensSharedError(ctx, source, out_size) ==
    /\ UNCHANGED gcVars
    /\ ctx \in Valid
    /\ UNCHANGED <<alive, decodeOk>>
    /\ IF SerializeArgsOk(ctx, source, out_size)
       THEN /\ mem' = [h \in Ctxs |->
                          IF alive[h] = "live"
                          THEN [mem[h] EXCEPT !.error = ErrTokenSer]
                          ELSE mem[h]]
            /\ recorded' = [recorded EXCEPT ![ctx] = ErrTokenSer]
            /\ last' = BridgeCall("serialize_tokens", ctx, source, 0, 0,
                                  {"out_size"}, NULL, "", SerializeTokensWrites,
                                  FALSE)
       ELSE /\ UNCHANGED <<mem, recorded>>
            /\ last' = BridgeCall("serialize_tokens", ctx, source, 0, 0,
                                  IF out_size THEN {"out_size"} ELSE {}, NULL, "",
                                  NoWrites, FALSE)

fax_serialize_tokens(ctx, source, out_size) ==
    /\ UNCHANGED gcVars
    /\ ctx \in Valid
    /\ UNCHANGED <<alive, decodeOk>>
    /\ IF SerializeArgsOk(ctx, source, out_size)
       THEN /\ mem' = [mem EXCEPT ![ctx] = SerializeTokensData(mem[ctx])]
            /\ recorded' = [recorded EXCEPT ![ctx] = ErrTokenSer]
            /\ last' = BridgeCall("serialize_tokens", ctx, source, 0, 0,
                                  {"out_size"}, NULL, "", SerializeTokensWrites,
                                  FALSE)
       ELSE /\ UNCHANGED <<mem, recorded>>
            /\ last' = BridgeCall("serialize_tokens", ctx, source, 0, 0,
                                  IF out_size THEN {"out_size"} ELSE {}, NULL, "",
                                  NoWrites, FALSE)

\* fax_bytes_free: a no-op.  The only pointer the bridge ever returns from a
\* serialize call is nullptr.
fax_bytes_free ==
    /\ UNCHANGED gcVars
    /\ last' = BridgeCall("bytes_free", NULL, FALSE, 0, 0, {}, 0, "", NoWrites,
                          FALSE)
    /\ UNCHANGED <<alive, mem, recorded, decodeOk>>

\* fax_deserialize_tokens
DeserializeTokensArgsOk(ctx, data, size) == ctx # NULL /\ data /\ size # 0
DeserializeTokensData(d) == [d EXCEPT !.error = ErrTokenDe]
DeserializeTokensSucceeds(ok) == IF ~ok THEN 0 - 1 ELSE 0
DeserializeTokensRet(ok) == IF ~ok THEN 0 - 1 ELSE 0 - 1

fax_deserialize_tokens(ctx, data, size) ==
    /\ UNCHANGED gcVars
    /\ ctx \in Valid
    /\ UNCHANGED alive
    /\ LET ok == DeserializeTokensArgsOk(ctx, data, size)
           ret == DeserializeTokensRet(ok)
       IN /\ IF ok
             THEN /\ mem' = [mem EXCEPT ![ctx] = DeserializeTokensData(mem[ctx])]
                  /\ recorded' = [recorded EXCEPT ![ctx] = ErrTokenDe]
             ELSE UNCHANGED <<mem, recorded>>
          /\ decodeOk' = IF ctx # NULL /\ ret >= 0
                         THEN [decodeOk EXCEPT ![ctx] = TRUE]
                         ELSE decodeOk
          /\ last' = BridgeCall("deserialize_tokens", ctx, data, size, 0, {},
                                ret, "", NoWrites, FALSE)

\* fax_get_token_count
TokenCountMissing(isNull, d) == IF isNull \/ ~d.token_stream THEN 0 - 1 ELSE 0
TokenCount(isNull, d) == IF isNull \/ ~d.token_stream THEN 0 ELSE 0

fax_get_token_count(ctx) ==
    /\ UNCHANGED gcVars
    /\ ctx \in Valid
    /\ last' = BridgeCall("get_token_count", ctx, FALSE, 0, 0, {},
                          TokenCount(ctx = NULL, mem[IF ctx = NULL THEN 1 ELSE ctx]),
                          "", NoWrites, FALSE)
    /\ UNCHANGED <<alive, mem, recorded, decodeOk>>

\* fax_get_token_info: ctx and index are cast to void; each non-null
\* out-parameter receives its default.
TokenInfoDefault(p) ==
    CASE p = "type" -> 0
      [] p = "text" -> ""
      [] p = "line" -> 0
      [] p = "col" -> 0
TokenInfoOneBased(isNull, d, index, outp) ==
    [p \in outp |-> IF p \in {"line", "col"} THEN 1 ELSE TokenInfoDefault(p)]
TokenInfoWrites(isNull, d, index, outp) == [p \in outp |-> TokenInfoDefault(p)]
\* the handle is never dereferenced
TokenInfoTouchesFreed(status) == FALSE

fax_get_token_info(ctx, index, outp) ==
    /\ UNCHANGED gcVars
    /\ ctx \in Held
    /\ last' = BridgeCall("get_token_info", ctx, FALSE, 0, index, outp, 0, "",
                          TokenInfoWrites(ctx = NULL,
                                          mem[IF ctx = NULL THEN 1 ELSE ctx],
                                          index, outp),
                          ctx # NULL /\ TokenInfoTouchesFreed(alive[ctx]))
    /\ UNCHANGED <<alive, mem, recorded, decodeOk>>

\* fax_serialize_module
SerializeModuleKeepsError(d) == d
SerializeModuleData(d) == [d EXCEPT !.error = ErrModuleSer]
SerializeModuleWrites == [p \in {"out_size"} |-> 0]

fax_serialize_module(ctx, ast_json, out_size) ==
    /\ UNCHANGED gcVars
    /\ ctx \in Valid
    /\ UNCHANGED <<alive, decodeOk>>
    /\ IF SerializeArgsOk(ctx, ast_json, out_size)
       THEN /\ mem' = [mem EXCEPT ![ctx] = SerializeModuleData(mem[ctx])]
            /\ recorded' = [recorded EXCEPT ![ctx] = ErrModuleSer]
            /\ last' = BridgeCall("serialize_module", ctx, ast_json, 0, 0,
                                  {"out_size"}, NULL, "", SerializeModuleWrites,
                                  FALSE)
       ELSE /\ UNCHANGED <<mem, recorded>>
            /\ last' = BridgeCall("serialize_module", ctx, ast_json, 0, 0,
                                  IF out_size THEN {"out_size"} ELSE {}, NULL, "",
                                  NoWrites, FALSE)

\* fax_deserialize_module
DeserializeModuleArgsOk(ctx, data, size, out_json) ==
    ctx # NULL /\ data /\ size # 0 /\ out_json
DeserializeModuleData(d) == [d EXCEPT !.error = ErrModuleDe]

fax_deserialize_module(ctx, data, size, out_json) ==
    /\ UNCHANGED gcVars
    /\ ctx \in Valid
    /\ UNCHANGED <<alive, decodeOk>>
    /\ IF DeserializeModuleArgsOk(ctx, data, size, out_json)
       THEN /\ mem' = [mem EXCEPT ![ctx] = DeserializeModuleData(mem[ctx])]
            /\ recorded' = [recorded EXCEPT ![ctx] = ErrModuleDe]
       ELSE UNCHANGED <<mem, recorded>>
    /\ last' = BridgeCall("deserialize_module", ctx, data, size, 0,
                          IF out_json THEN {"out_json"} ELSE {}, 0 - 1, "",
                          NoWrites, FALSE)

\* fax_string_free: delete[] str.  No call hands out an owned string, so the
\* only pointer a caller has to pass is nullptr (delete[] nullptr does nothing).
fax_string_free ==
    /\ UNCHANGED gcVars
    /\ last' = BridgeCall("string_free", NULL, FALSE, 0, 0, {}, 0, "", NoWrites,
                          FALSE)
    /\ UNCHANGED <<alive, mem, recorded, decodeOk>>

fax_proto_version ==
    /\ UNCHANGED gcVars
    /\ last' = BridgeCall("version", NULL, FALSE, 0, 0, {}, 1, VersionString,
                          NoWrites, FALSE)
    /\ UNCHANGED <<alive, mem, recorded, decodeOk>>

BridgeInitState ==
    /\ alive = [h \in Ctxs |-> "unalloc"]
    /\ mem = [h \in Ctxs |-> Indeterminate]
    /\ recorded = [h \in Ctxs |-> ""]
    /\ decodeOk = [h \in Ctxs |-> FALSE]
    /\ last = BridgeCall("none", NULL, FALSE, 0, 0, {}, 0, "", NoWrites, FALSE)

BridgeNext ==
    \/ fax_proto_context_new
    \/ \E ctx \in {NULL} \cup Ctxs : fax_proto_context_free(ctx)
    \/ \E ctx \in {NULL} \cup Ctxs : fax_proto_get_error(ctx)
    \/ \E ctx \in {NULL} \cup Ctxs, source \in BOOLEAN, out_size \in BOOLEAN :
          fax_serialize_tokens(ctx, source, out_size)
    \/ fax_bytes_free
    \/ \E ctx \in {NULL} \cup Ctxs, data \in BOOLEAN, size \in Sizes :
          fax_deserialize_tokens(ctx, data, size)
    \/ \E ctx \in {NULL} \cup Ctxs : fax_get_token_count(ctx)
    \/ \E ctx \in {NULL} \cup Ctxs, index \in Indexes, outp \in SUBSET OutParams :
          fax_get_token_info(ctx, index, outp)
    \/ \E ctx \in {NULL} \cup Ctxs, ast_json \in BOOLEAN, out_size \in BOOLEAN :
          fax_serialize_module(ctx, ast_json, out_size)
    \/ \E ctx \in {NULL} \cup Ctxs, data \in BOOLEAN, size \in Sizes,
          out_json \in BOOLEAN :
          fax_deserialize_module(ctx, data, size, out_json)
    \/ fax_string_free
    \/ fax_proto_version

(***************************************************************************)
(* Specifications                                                          *)
(***************************************************************************)
Init == GcInitState /\ BridgeInitState

Next == GcNext \/ BridgeNext

\* the whole program: runtime and bridge calls in any order
Spec == Init /\ [][Next]_vars
\* the Allocation Runtime alone
GcSpec == Init /\ [][GcNext]_vars
\* the Serialization Bridge alone
BridgeSpec == Init /\ [][BridgeNext]_vars
\* A host that uses both components: it creates a context, makes an encode
\* call on it (which records an error on the context), and from then on
\* calls the Allocation Runtime.
HostCreatesContext ==
    /\ gcLog = <<>>
    /\ last.op = "none"
    /\ fax_proto_context_new

HostEncodes ==
    /\ gcLog = <<>>
    /\ last.op = "context_new"
    /\ fax_serialize_tokens(last.ret, TRUE, TRUE)

HostNext == GcNext \/ HostCreatesContext \/ HostEncodes
HostSpec == Init /\ [][HostNext]_vars
\* A host that uses the Serialization Bridge in any way and then makes one
\* Allocation Runtime call: every runtime function is called beside every
\* state the contexts can be in.
BridgeStepBeforeRuntime ==
    /\ gcLog = <<>>
    /\ BridgeNext

RuntimeStepAfterBridge ==
    /\ gcLog = <<>>
    /\ GcNext

IsolationNext == BridgeStepBeforeRuntime \/ RuntimeStepAfterBridge
IsolationSpec == Init /\ [][IsolationNext]_vars
\* the Allocation Runtime called from MaxThreads threads at once
GcConcSpec == Init /\ [][GcConcNext]_vars

(***************************************************************************)
(* Properties of the Allocation Runtime (checked under GcSpec)             *)
(***************************************************************************)
LastGc == gcLog[Len(gcLog)]
AllocOps == {"alloc", "alloc_zeroed"}

\* C1: whatever the runtime state before it (never initialized, initialized,
\* shut down), a fax_gc_alloc / fax_gc_alloc_zeroed call leaves the runtime
\* initialized, and it returns the block whenever malloc/calloc produced one:
\* the runtime's own state never makes it fail.
AllocLeavesInitialized ==
    (Len(gcLog) > 0 /\ LastGc.op \in AllocOps) =>
        /\ gc_initialized = 1
        /\ (LastGc.sys # NULL => LastGc.ret = LastGc.sys)

\* C1 witness: fax_gc_shutdown immediately followed by an allocation that
\* returned an address.
AllocAfterShutdownSeen ==
    /\ Len(gcLog) >= 2
    /\ gcLog[Len(gcLog) - 1].op = "shutdown"
    /\ LastGc.op = "alloc"
    /\ LastGc.ret # NULL
    /\ gc_initialized = 1

\* C2: every fax_gc_init call returns 1 and leaves the runtime initialized
\* with the root set untouched; a call that directly follows another
\* fax_gc_init call changes nothing in the runtime state, so N calls in a row
\* end in the state one call ends in.
InitIdempotent ==
    [][fax_gc_init =>
          /\ gcLog'[Len(gcLog')].ret = 1
          /\ gc_initialized' = 1
          /\ roots' = roots
          /\ (Len(gcLog) > 0 /\ LastGc.op = "init" =>
                 gc_initialized' = gc_initialized)]_vars

\* C2 witness: three fax_gc_init calls in a row, the first of them made on
\* a runtime that the calls before had left in any state.
InitThriceSeen ==
    /\ Len(gcLog) = Window
    /\ \A i \in 1..Len(gcLog) : gcLog[i].op = "init" /\ gcLog[i].ret = 1
    /\ gc_initialized = 1

\* C7: after register_root(a); register_root(a); unregister_root(a) the
\* address a is not held as a root and the three calls returned 1; every
\* unregister_root call returns 1, and one made for an address that is not a
\* root leaves the root set and the initialization flag as they were.
RootSetSemantics ==
    [][\A a \in {NULL} \cup Addrs :
          fax_gc_unregister_root(a) =>
              /\ gcLog'[Len(gcLog')].ret = 1
              /\ (a \notin roots => roots' = roots /\ gc_initialized' = gc_initialized)
              /\ (/\ Len(gcLog) >= 2
                  /\ gcLog[Len(gcLog)].op = "register_root"
                  /\ gcLog[Len(gcLog)].arg = a
                  /\ gcLog[Len(gcLog) - 1].op = "register_root"
                  /\ gcLog[Len(gcLog) - 1].arg = a
                  => /\ a \notin roots'
                     /\ gcLog[Len(gcLog)].ret = 1
                     /\ gcLog[Len(gcLog) - 1].ret = 1)]_vars

\* C7 witness: the three-call sequence has just run for a non-null address.
RegisterTwiceUnregisterSeen ==
    /\ Len(gcLog) = Window
    /\ \E a \in Addrs :
          /\ gcLog[Len(gcLog) - 2].op = "register_root"
          /\ gcLog[Len(gcLog) - 2].arg = a
          /\ gcLog[Len(gcLog) - 1].op = "register_root"
          /\ gcLog[Len(gcLog) - 1].arg = a
          /\ LastGc.op = "unregister_root"
          /\ LastGc.arg = a
          /\ LastGc.ret = 1
          /\ a \notin roots

(***************************************************************************)
(* Properties of the Serialization Bridge (checked under BridgeSpec)       *)
(***************************************************************************)
Live(h) == h # NULL /\ alive[h] = "live"

\* C3: after fax_deserialize_tokens on a valid context fails with an
\* invalid argument (absent byte pointer or zero length) and returns -1,
\* fax_proto_get_error on that context returns a message (is not absent).
InvalidArgumentReported ==
    (/\ last.op = "deserialize_tokens"
     /\ Live(last.ctx)
     /\ (~last.inp \/ last.size = 0)
     /\ last.ret = 0 - 1)
    => ~GetErrorNull(mem[last.ctx])

\* C4: fax_serialize_tokens / fax_serialize_module called with a valid
\* context, a source text and an out_size return a null buffer, store 0
\* through out_size, and leave the context so that fax_proto_get_error
\* returns that function's non-empty "not yet implemented" message.
CodecUnavailableReported ==
    (/\ last.op \in {"serialize_tokens", "serialize_module"}
     /\ Live(last.ctx)
     /\ last.inp
     /\ "out_size" \in last.outp)
    => /\ last.ret = NULL
       /\ DOMAIN last.writes = {"out_size"}
       /\ last.writes["out_size"] = 0
       /\ ~GetErrorNull(mem[last.ctx])
       /\ GetErrorText(mem[last.ctx]) =
             (IF last.op = "serialize_tokens" THEN ErrTokenSer ELSE ErrModuleSer)
       /\ GetErrorText(mem[last.ctx]) # ""

\* C4 witness: both encoders have failed this way, the module encoder last
\* and on a context that held the token encoder's message before.
CodecUnavailableSeen ==
    /\ last.op = "serialize_module"
    /\ Live(last.ctx)
    /\ last.inp
    /\ "out_size" \in last.outp
    /\ mem[last.ctx].temp_string = ErrTokenSer
    /\ mem[last.ctx].error = ErrModuleSer

\* C5: on every live context on which no fax_deserialize_tokens call has
\* returned success, fax_get_token_count is 0, and it is 0 on the null
\* handle.  (No decode returns success, so no context ever has a most recent
\* successful decode whose token count could be reported.)
TokenCountZeroBeforeDecode ==
    /\ \A h \in Ctxs :
          (alive[h] = "live" /\ ~decodeOk[h]) => TokenCount(FALSE, mem[h]) = 0
    /\ TokenCount(TRUE, ProtoContextData) = 0
    /\ (last.op = "get_token_count" /\ (last.ctx = NULL \/ ~decodeOk[last.ctx]))
          => last.ret = 0

\* C5 witness: the count was asked of a context whose latest decode attempt
\* had failed.
TokenCountAfterFailedDecodeSeen ==
    /\ last.op = "get_token_count"
    /\ Live(last.ctx)
    /\ recorded[last.ctx] = ErrTokenDe
    /\ ~decodeOk[last.ctx]
    /\ last.ret = 0

\* C6: for every handle (null, live or already freed) and every index that
\* is negative or not below the token count, fax_get_token_info stores the
\* empty-token sentinel (0, "", 0, 0) through exactly the out-parameters
\* that are present, touches no freed object, and leaves every context, its
\* recorded error included, as it was.
TokenInfoSentinel ==
    [][(/\ last'.op = "get_token_info"
        /\ (last'.index < 0 \/
            last'.index >= TokenCount(last'.ctx = NULL,
                                      mem[IF last'.ctx = NULL THEN 1 ELSE last'.ctx])))
       => /\ DOMAIN last'.writes = last'.outp
          /\ \A p \in last'.outp :
                last'.writes[p] = (IF p = "text" THEN "" ELSE 0)
          /\ ~last'.ub
          /\ mem' = mem
          /\ alive' = alive
          /\ recorded' = recorded
          /\ decodeOk' = decodeOk]_vars

\* C6 witness: the call was made with all four out-parameters on a context
\* that holds a recorded error, with an index at or past the token count.
TokenInfoSentinelSeen ==
    /\ last.op = "get_token_info"
    /\ Live(last.ctx)
    /\ last.index >= TokenCount(FALSE, mem[last.ctx])
    /\ last.outp = OutParams
    /\ mem[last.ctx].error # ""
    /\ last.writes["type"] = 0
    /\ last.writes["text"] = ""

\* C8: on every live context fax_proto_get_error returns the message of the
\* most recent operation that recorded one on it, and absent when none has;
\* a fax_proto_get_error call returns exactly that and, recording nothing
\* itself, leaves the answer of the next call the same.
LastErrorIsMostRecent ==
    /\ \A h \in Ctxs :
          alive[h] = "live" =>
             IF recorded[h] = ""
             THEN GetErrorNull(mem[h])
             ELSE ~GetErrorNull(mem[h]) /\ GetErrorText(mem[h]) = recorded[h]
    /\ (last.op = "get_error" /\ Live(last.ctx) /\ ~last.ub) =>
          IF recorded[last.ctx] = ""
          THEN last.ret = NULL
          ELSE last.ret # NULL /\ last.text = recorded[last.ctx]

\* C8 witness: two failing operations recorded different messages on one
\* context, fax_proto_get_error returned the first in between, and the
\* accessor now answers with the later one.
LaterErrorReturnedSeen ==
    /\ last.op = "deserialize_module"
    /\ Live(last.ctx)
    /\ mem[last.ctx].temp_string = ErrTokenSer
    /\ recorded[last.ctx] = ErrModuleDe
    /\ ~GetErrorNull(mem[last.ctx])
    /\ GetErrorText(mem[last.ctx]) = ErrModuleDe

\* C9: the context fax_proto_context_new has just returned holds no error,
\* an empty buffer, no decoded token stream and no decoded module;
\* fax_proto_get_error on it is absent and fax_get_token_count is 0.
FreshContext ==
    last.op = "context_new" =>
        /\ alive[last.ret] = "live"
        /\ mem[last.ret].error = ""
        /\ mem[last.ret].buffer = <<>>
        /\ ~mem[last.ret].token_stream
        /\ ~mem[last.ret].module
        /\ GetErrorNull(mem[last.ret])
        /\ TokenCount(FALSE, mem[last.ret]) = 0

\* C9 witness: a context is created while another context, created earlier,
\* is live and holds an error.
FreshBesideUsedSeen ==
    /\ last.op = "context_new"
    /\ \E h \in Ctxs \ {last.ret} : alive[h] = "live" /\ mem[h].error # ""

\* C10: no bridge call reads, writes or deletes a context object that
\* fax_proto_context_free has already released.
NoUseAfterFree == ~last.ub

\* C13: the lifecycle flag has exactly these edges.  A step that takes the
\* runtime from Uninitialized to Initialized is a fax_gc_init, fax_gc_alloc
\* or fax_gc_alloc_zeroed call; a step that takes it from Initialized to
\* Uninitialized is a fax_gc_shutdown call; fax_gc_register_root,
\* fax_gc_unregister_root, fax_gc_collect and fax_gc_collect_young leave the
\* flag as it was; fax_gc_shutdown on an uninitialized runtime leaves it
\* uninitialized.
LifecycleEdges ==
    [][/\ (gc_initialized = 0 /\ gc_initialized' # 0) =>
              \/ fax_gc_init
              \/ \E size \in Sizes : fax_gc_alloc(size)
              \/ \E size \in Sizes : fax_gc_alloc_zeroed(size)
       /\ (gc_initialized # 0 /\ gc_initialized' = 0) => fax_gc_shutdown
       /\ (\/ \E ptr \in {NULL} \cup Addrs : fax_gc_register_root(ptr)
           \/ \E ptr \in {NULL} \cup Addrs : fax_gc_unregister_root(ptr)
           \/ fax_gc_collect
           \/ fax_gc_collect_young) => gc_initialized' = gc_initialized
       /\ (gc_initialized = 0 /\ fax_gc_shutdown) => gc_initialized' = 0
       /\ gc_initialized' \in {0, 1}]_vars

\* C13 witness: fax_gc_shutdown as the first call ever made, then
\* fax_gc_collect, and the runtime is still uninitialized
ShutdownThenCollectUninitializedSeen ==
    /\ Len(gcLog) = 2
    /\ gcLog[1].op = "shutdown"
    /\ gcLog[2].op = "collect"
    /\ gc_initialized = 0

(***************************************************************************)
(* Properties of the Allocation Runtime beside live contexts               *)
(* (checked under HostSpec)                                                *)
(***************************************************************************)

\* C12: fax_gc_alloc and fax_gc_alloc_zeroed return null exactly when the one
\* malloc/calloc call they make returned null; in that case they write
\* exactly one diagnostic line to stderr and record nothing on any context
\* (no context's stored data or recorded message changes); when the library
\* call produced a block they return it and write no diagnostic.
AllocFailureReported ==
    [][(gcLog' # gcLog /\ LastGc'.op \in AllocOps) =>
          /\ (LastGc'.ret = NULL) <=> (LastGc'.sys = NULL)
          /\ LastGc'.sys # NULL => LastGc'.ret = LastGc'.sys
          /\ LastGc'.diag = (IF LastGc'.sys = NULL THEN 1 ELSE 0)
          /\ UNCHANGED <<alive, mem, recorded>>]_vars

\* an allocation failed beside a live context that holds an earlier error,
\* then an allocation succeeded
AllocFailureBesideContextSeen ==
    /\ Len(gcLog) >= 2
    /\ gcLog[Len(gcLog) - 1].op \in AllocOps
    /\ gcLog[Len(gcLog) - 1].ret = NULL
    /\ gcLog[Len(gcLog) - 1].diag = 1
    /\ LastGc.op \in AllocOps
    /\ LastGc.ret # NULL
    /\ LastGc.diag = 0
    /\ \E h \in Ctxs : /\ alive[h] = "live"
                       /\ mem[h].error = ErrTokenSer
                       /\ recorded[h] = ErrTokenSer

(***************************************************************************)
(* Properties of the Allocation Runtime under concurrent calls             *)
(* (checked under GcConcSpec)                                              *)
(***************************************************************************)

\* C11: the runtime's operations are serialized, so an allocation call's
\* flag test, lazy initialization and return form one unit that no other
\* thread's write of the flag can fall into: whenever fax_gc_alloc or
\* fax_gc_alloc_zeroed has returned memory, the runtime was initialized at
\* the moment it returned.
AllocReturnsInitialized ==
    \A t \in Threads :
        (thr[t].pc = "idle" /\ thr[t].op \in AllocOps /\ thr[t].ret # NULL)
            => thr[t].init = 1

(***************************************************************************)
(* Frame and stickiness properties of the Serialization Bridge             *)
(* (checked under BridgeSpec)                                              *)
(***************************************************************************)

\* A recorded encode/decode call whose arguments its function rejects: a null
\* context, an absent input, an absent out-parameter, or (decoding) no bytes.
InvalidCodecCall(c) ==
    \/ /\ c.op \in {"serialize_tokens", "serialize_module"}
       /\ (c.ctx = NULL \/ ~c.inp \/ "out_size" \notin c.outp)
    \/ /\ c.op = "deserialize_tokens"
       /\ (c.ctx = NULL \/ ~c.inp \/ c.size = 0)
    \/ /\ c.op = "deserialize_module"
       /\ (c.ctx = NULL \/ ~c.inp \/ c.size = 0 \/ "out_json" \notin c.outp)

\* C14: a fax_serialize_tokens, fax_serialize_module, fax_deserialize_tokens
\* or fax_deserialize_module call that fails on an invalid argument changes
\* no context's encoded buffer, decoded token stream or decoded module, and
\* writes through no caller-supplied out-parameter (*out_size and *out_json
\* keep the values they had before the call).
InvalidArgumentFrame ==
    [][InvalidCodecCall(last') =>
          /\ \A h \in Ctxs : /\ mem'[h].buffer = mem[h].buffer
                             /\ mem'[h].token_stream = mem[h].token_stream
                             /\ mem'[h].module = mem[h].module
          /\ decodeOk' = decodeOk
          /\ DOMAIN last'.writes = {}]_vars

\* C14 witness: fax_serialize_tokens with an out_size pointer but no token
\* source has failed on a live context, and nothing was written to *out_size
InvalidSerializeSeen ==
    /\ last.op = "serialize_tokens"
    /\ Live(last.ctx)
    /\ ~last.inp
    /\ last.outp = {"out_size"}
    /\ last.ret = NULL
    /\ DOMAIN last.writes = {}

CodecOps == {"serialize_tokens", "serialize_module", "deserialize_tokens",
             "deserialize_module"}

\* C15: a recorded error is sticky.  While a context lives, once it holds a
\* message no call makes it hold none: reading it with fax_proto_get_error
\* returns the message and does not clear it, and a later call that records
\* nothing (an encode/decode call failing on an invalid argument, or any
\* call other than the four encode/decode functions) leaves the earlier
\* message in place, where the accessor still reports it.
ErrorSticky ==
    [][\A h \in Ctxs :
          (alive[h] = "live" /\ alive'[h] = "live" /\ mem[h].error # "") =>
              /\ mem'[h].error # ""
              /\ (InvalidCodecCall(last') \/ last'.op \notin CodecOps) =>
                     mem'[h].error = mem[h].error
              /\ (last'.op = "get_error" /\ last'.ctx = h) =>
                     /\ last'.ret # NULL
                     /\ last'.text = mem[h].error
              /\ ~GetErrorNull(mem'[h])]_vars

\* C15 witness: a decode call has just failed on an invalid argument on a
\* live context whose message, recorded by an earlier encode call and read
\* once already, is still what the accessor reports
StaleErrorKeptSeen ==
    /\ last.op = "deserialize_tokens"
    /\ InvalidCodecCall(last)
    /\ Live(last.ctx)
    /\ last.ret = 0 - 1
    /\ mem[last.ctx].error = ErrTokenSer
    /\ mem[last.ctx].temp_string = ErrTokenSer
    /\ ~GetErrorNull(mem[last.ctx])
    /\ GetErrorText(mem[last.ctx]) = ErrTokenSer

\* C17: no encode or decode call ever succeeds.  fax_serialize_tokens and
\* fax_serialize_module always return null (and store nothing but 0 through
\* out_size), fax_deserialize_tokens and fax_deserialize_module always
\* return -1, every live context's encoded buffer is empty, no live context
\* holds a decoded token stream or module, and nothing is ever handed out
\* through out_json.
NoCodecSuccess ==
    /\ last.op \in {"serialize_tokens", "serialize_module"} =>
           /\ last.ret = NULL
           /\ \A p \in DOMAIN last.writes : p = "out_size" /\ last.writes[p] = 0
    /\ last.op \in {"deserialize_tokens", "deserialize_module"} =>
           /\ last.ret = 0 - 1
           /\ DOMAIN last.writes = {}
    /\ \A h \in Ctxs :
           alive[h] = "live" =>
               /\ mem[h].buffer = <<>>
               /\ ~mem[h].token_stream
               /\ ~mem[h].module
               /\ ~decodeOk[h]

\* C17 witness: fax_deserialize_module called with a live context, bytes, a
\* non-zero size and an out_json pointer has returned -1 and written nothing
ValidDecodeFailedSeen ==
    /\ last.op = "deserialize_module"
    /\ ~InvalidCodecCall(last)
    /\ Live(last.ctx)
    /\ last.ret = 0 - 1
    /\ DOMAIN last.writes = {}
    /\ mem[last.ctx].error = ErrModuleDe
    /\ ~mem[last.ctx].module

(***************************************************************************)
(* Isolation of contexts (checked under IsolationSpec)                     *)
(***************************************************************************)

\* The context a recorded bridge call operates on: the one it was handed, or
\* the one fax_proto_context_new created.
Target(c) == IF c.op = "context_new" THEN c.ret ELSE c.ctx

\* C16: contexts are isolated.  A bridge call made within the contract (no
\* handle of a destroyed context) on context a, whether it succeeds, fails,
\* or destroys a, changes nothing of any other live context b: b stays
\* live and keeps its error message, buffers and decoded state.  No
\* Allocation Runtime call changes the state of any context.
ContextsIsolated ==
    [][/\ ~last'.ub =>
              \A h \in Ctxs :
                  (alive[h] = "live" /\ h # Target(last')) =>
                      /\ alive'[h] = "live"
                      /\ mem'[h] = mem[h]
                      /\ recorded'[h] = recorded[h]
                      /\ decodeOk'[h] = decodeOk[h]
       /\ gcLog' # gcLog => UNCHANGED <<alive, mem, recorded, decodeOk>>]_vars

\* C16 witness: of two live contexts one has had an encode call record an
\* error and the other is still as created, and a runtime allocation has
\* been made beside them
IsolatedPairBesideRuntimeSeen ==
    /\ Len(gcLog) = 1
    /\ LastGc.op \in AllocOps
    /\ last.op = "serialize_tokens"
    /\ ~InvalidCodecCall(last)
    /\ Live(last.ctx)
    /\ mem[last.ctx].error = ErrTokenSer
    /\ \E h \in Ctxs \ {last.ctx} : /\ alive[h] = "live"
                                    /\ mem[h] = ProtoContextData
                                    /\ recorded[h] = ""

=============================================================================
